---- MODULE Spec2Model ----
(***************************************************************************)
(* Model of the hiring platform's classification key pool                  *)
(* (modules/ai_classifier.py, APIKeyPool) and of the ingestion / reply     *)
(* pipeline (modules/processing_engine.py, modules/database_handler.py,    *)
(* modules/email_handler.py).                                              *)
(***************************************************************************)
EXTENDS Integers, Naturals, Sequences, FiniteSets, TLC

(* ------------------------------ bounds --------------------------------- *)
NumKeys == 2
MaxTime == 2
MaxCooldown == 1
MaxUses == NumKeys + 1
MaxMsg == 2

Keys == 1..NumKeys
NoKey == 0

VARIABLES
    api_keys,            \* APIKeyPool.api_keys (list of credentials)
    current_index,       \* APIKeyPool.current_index
    failed_keys,         \* APIKeyPool.failed_keys
    rate_limited_keys,   \* APIKeyPool.rate_limited_keys (key -> expire time)
    usage_counts,        \* APIKeyPool.usage_counts
    now,                 \* value of time.time()
    held,                \* key handed out by get_next_available_key and
                         \* not yet reported back through a mark_* call
    fresh,               \* TRUE right after a get_next_available_key call
    everFailed,          \* keys mark_key_failed was ever called on
    cycleLog             \* keys of the consecutive get+mark_used cycles

poolVars == <<api_keys, current_index, failed_keys, rate_limited_keys,
              usage_counts, now, held, fresh, everFailed, cycleLog>>

VARIABLES
    mailbox,             \* message ids that exist in the mail source
    unread,              \* message ids still carrying the UNREAD label
    applicants,          \* rows of table applicants (ID = position)
    communications,      \* rows of table communications
    processed_message_ids_this_run,  \* ProcessingEngine attribute
    pc,                  \* "idle", "apps" (process_new_applications),
                         \* "replies" (process_replies)
    messages,            \* process_new_applications: messages left to loop over
    successful_count,    \* process_new_applications local
    failed_count,        \* process_new_applications local
    active_threads,      \* process_replies: (applicant, thread) pairs left
    messages_in_thread,  \* process_replies: thread messages left to loop over
    known_ids,           \* process_replies: known_ids of the current applicant
    cur_applicant,       \* process_replies: applicant_id of the current thread
    count,               \* process_replies local
    last,                \* the latest handler step: what it was given and did
    fetched,             \* ids returned by the fetch of the latest ingestion run
    run_start,           \* processed_message_ids_this_run as that run found it
    attempted,           \* ids process_single_email was invoked for in that run
    aiFailed,            \* ids whose classification failed on this engine
    runKind,             \* how the latest ingestion run relates to the one before
    sinceRun,            \* what happened since the latest ingestion run began
    runCreated,          \* rows the latest ingestion run added (apps, comms)
    queried              \* process_replies: table applicants as it was when
                         \* get_active_threads read it

mailVars == <<mailbox, unread>>
dbVars == <<applicants, communications>>
appsVars == <<messages, successful_count, failed_count>>
repliesVars == <<active_threads, messages_in_thread, known_ids, cur_applicant,
                 count>>
ghostVars == <<fetched, run_start, attempted, aiFailed, runKind, sinceRun, runCreated>>
VARIABLES
    xpc,                 \* position in extract_info: "idle", "loop" (top of
                         \* the retry loop), "invoke" (key obtained), "sleep"
                         \* (after a failed attempt), "done" (returned)
    attempt,             \* loop variable of _extract_with_google_gemini_retry
    api_key,             \* its local api_key
    provider_calls,      \* generate_content calls made by the current call
    sleeps,              \* time.sleep calls made by the current call
    result,              \* what extract_info returns
    exit,                \* which return statement ended the call
    startLimited,        \* every key was rate limited when the call began
    xlast,               \* the latest attempt of the call: its outcome, its
                         \* key and the pool as it was before the attempt
    total_delay,         \* seconds of the time.sleep that has just ended
    returned             \* extract_info calls that returned a result so far

extractVars == <<xpc, attempt, api_key, provider_calls, sleeps, result, exit,
                 startLimited, xlast, total_delay, returned>>

VARIABLES
    text,                \* raw response text given to _parse_and_clean_response
    phone_in,            \* the Phone value of the object in the response
    domain_in,           \* the Domain value given to _normalize_domain
    parsed,              \* what _parse_and_clean_response returned
    domain_out           \* what _normalize_domain returned

parseVars == <<text, phone_in, domain_in, parsed, domain_out>>

VARIABLES
    holding,             \* per caller of extract_info: the key it got from
                         \* get_next_available_key and has not reported on
    uses,                \* keys of the mark_key_used calls, in order
    overlapped           \* two callers held the same key at the same time

raceVars == <<holding, uses, overlapped>>

VARIABLES
    sync_in_progress,    \* st.session_state.sync_in_progress
    script_pc,           \* the script run of the session: "idle", or "thread"
                         \* between setting the flag and starting the thread
    threads,             \* the background_sync threads started so far, each
                         \* with its position and the notifications it put
    notification_queue,  \* st.session_state.notification_queue
    sync_results         \* st.session_state.sync_results

syncVars == <<sync_in_progress, script_pc, threads, notification_queue,
              sync_results>>

pipelineVars == <<mailVars, dbVars, processed_message_ids_this_run, pc,
                  appsVars, repliesVars, last, ghostVars, queried>>
engineVars == <<pipelineVars, parseVars>>

vars == <<poolVars, engineVars, extractVars, raceVars, syncVars>>

SideIdle == UNCHANGED <<raceVars, syncVars>>
PoolIdle == UNCHANGED <<poolVars, extractVars, parseVars>> /\ SideIdle
ExtractIdle == UNCHANGED extractVars /\ SideIdle

(* --------------------- mail source and storage -------------------------- *)
Msgs == 1..MaxMsg
NoMsg == 0
Null == 0
NoEmail == 0
NoId == 0

\* sender address and thread of a message, as get_email_content reports them
SenderOf(m) == ((m - 1) % 2) + 1
ThreadOf(m) == ((m - 1) \div 2) + 1
Emails == {SenderOf(m) : m \in Msgs}

\* the dict built by get_email_content
EmailData(m) == [id |-> m, thread_id |-> ThreadOf(m), sender |-> SenderOf(m)]
\* the empty dict the importer passes as email_data
NoEmailData == [id |-> NoMsg, thread_id |-> Null, sender |-> NoEmail]

\* all orders in which the mail source may list a set of ids
Orders(S) ==
    {q \in [1..Cardinality(S) -> S] : \A i, j \in DOMAIN q : i # j => q[i] # q[j]}

\* what messages().list may answer for a set of matching ids: the ids in some
\* order, or with the first id listed once more at the end (the source
\* delivers at least once)
Listings(S) ==
    Orders(S) \cup {Append(q, q[1]) : q \in {o \in Orders(S) : o # << >>}}

\* variant: the lookup only sees the most recent row
EmailExists_lastRow(apps, e) == apps # << >> /\ apps[Len(apps)].Email = e

EmailExists(apps, e) == \E i \in DOMAIN apps : apps[i].Email = e
MessageExists(comms, m) == \E i \in DOMAIN comms : comms[i].GmailMessageID = m

\* variant: the except handler leaves the applicant row already written
rollback_keepsApplicant(apps, comms, pending) ==
    [apps |-> pending, comms |-> comms, id |-> NoId]

\* conn.rollback() in the except handler: the rows written since the last
\* commit are discarded and the call answers None
rollback(apps, comms, pending) == [apps |-> apps, comms |-> comms, id |-> NoId]

\* DatabaseHandler.insert_applicant_and_communication; dbError is a failure of
\* the storage layer raised inside the try block
insert_applicant_and_communication(apps, comms, email, nameOk, email_data, dbError) ==
    LET none == [apps |-> apps, comms |-> comms, id |-> NoId]
        apps2 == Append(apps, [Email |-> email,
                               ThreadID |-> email_data.thread_id,
                               Status |-> "New"])
        comms2 == Append(comms, [ApplicantID |-> Len(apps2),
                                 GmailMessageID |-> email_data.id,
                                 Direction |-> "Incoming"])
    IN IF dbError THEN none
       ELSE IF EmailExists(apps, email) THEN none
       ELSE IF email = NoEmail \/ ~nameOk THEN none    \* NOT NULL, rolled back
       ELSE IF email_data.id = NoMsg
            THEN [apps |-> apps2, comms |-> comms, id |-> Len(apps2)]
       ELSE IF MessageExists(comms, email_data.id)
            THEN rollback(apps, comms, apps2)          \* UNIQUE, rolled back
       ELSE [apps |-> apps2, comms |-> comms2, id |-> Len(apps2)]

\* variant: insert_communication without the look-up of the message id
insert_communication_nocheck(comms, applicant_id, m, dbError) ==
    IF dbError
    THEN [comms |-> comms, id |-> NoId]
    ELSE [comms |-> Append(comms, [ApplicantID |-> applicant_id,
                                   GmailMessageID |-> m,
                                   Direction |-> "Incoming"]),
          id |-> Len(comms) + 1]

\* DatabaseHandler.insert_communication
insert_communication(comms, applicant_id, m, dbError) ==
    IF dbError \/ MessageExists(comms, m)
    THEN [comms |-> comms, id |-> NoId]
    ELSE [comms |-> Append(comms, [ApplicantID |-> applicant_id,
                                   GmailMessageID |-> m,
                                   Direction |-> "Incoming"]),
          id |-> Len(comms) + 1]

\* variant: the query does not look at Status
RECURSIVE get_active_threads_anyStatus(_, _)
get_active_threads_anyStatus(apps, i) ==
    IF i > Len(apps) THEN << >>
    ELSE (IF apps[i].ThreadID # Null
          THEN << <<i, apps[i].ThreadID>> >> ELSE << >>)
         \o get_active_threads_anyStatus(apps, i + 1)

\* DatabaseHandler.get_active_threads
RECURSIVE get_active_threads(_, _)
get_active_threads(apps, i) ==
    IF i > Len(apps) THEN << >>
    ELSE (IF apps[i].ThreadID # Null /\ apps[i].Status \notin {"Rejected", "Hired"}
          THEN << <<i, apps[i].ThreadID>> >> ELSE << >>)
         \o get_active_threads(apps, i + 1)

\* the gmail_message_id column of DatabaseHandler.get_conversations
PersistedIds(comms, applicant_id) ==
    {comms[i].GmailMessageID : i \in {j \in DOMAIN comms : comms[j].ApplicantID = applicant_id}}

\* EmailHandler.mark_as_read: the label is removed unless the call fails
mark_as_read(u, m, ok) == IF ok THEN u \ {m} ELSE u

(* ------------------------- ProcessingEngine ---------------------------- *)
NoStep == [op |-> "none", msg |-> NoMsg, outcome |-> "none", id |-> NoId,
           marked |-> FALSE, emailExisted |-> FALSE, wasPersisted |-> FALSE,
           known |-> FALSE, inRunSet |-> FALSE, changed |-> FALSE,
           counted |-> "none", dApps |-> 0, dComms |-> 0,
           calls |-> {}, applied |-> FALSE, again |-> FALSE]

EngineInit ==
    /\ mailbox = {}
    /\ unread = {}
    /\ applicants = << >>
    /\ communications = << >>
    /\ processed_message_ids_this_run = {}
    /\ pc = "idle"
    /\ messages = << >>
    /\ successful_count = 0
    /\ failed_count = 0
    /\ active_threads = << >>
    /\ messages_in_thread = << >>
    /\ known_ids = {}
    /\ cur_applicant = NoId
    /\ count = 0
    /\ last = NoStep
    /\ fetched = {}
    /\ run_start = {}
    /\ attempted = {}
    /\ aiFailed = {}
    /\ runKind = "first"
    /\ sinceRun = "none"
    /\ runCreated = <<0, 0>>
    /\ queried = << >>

\* what the collaborators of process_single_email can answer for one message
Answers == {"no_content", "no_attachment", "ai_none", "ai_noname", "error", "valid"}

\* process_single_email: the outcome, given the collaborators' answer and the
\* id returned by insert_applicant_and_communication
OutcomeOf(answer, id) ==
    IF answer # "valid" THEN answer
    ELSE IF id # NoId THEN "inserted" ELSE "conflict"

\* variant: a message whose insert answered None is left unread
MarksRead_notOnConflict(outcome) == outcome \in {"no_attachment", "inserted"}

\* variant: only the branches after the insert mark the message read
MarksRead_insertOnly(outcome) == outcome \in {"inserted", "conflict"}

\* variant: the classification-failure branch marks the message read too
MarksRead_onFailure(outcome) ==
    outcome \in {"no_attachment", "inserted", "conflict", "ai_none", "ai_noname"}

\* process_single_email: the branches that call mark_as_read
MarksRead(outcome) == outcome \in {"no_attachment", "inserted", "conflict"}

\* process_single_email: the collaborators called on the way to each outcome
\* (for "error", the first call, which is made whichever call raised)
Invoked(outcome) ==
    LET content == {"get_email_content"}
        attachment == content \cup {"save_attachment"}
        inference == attachment \cup {"extract_text", "extract_info"}
        stored == inference \cup {"upload_to_drive",
                                  "insert_applicant_and_communication"}
    IN CASE outcome \in {"no_content", "error"} -> content
         [] outcome = "no_attachment" -> attachment \cup {"mark_as_read"}
         [] outcome \in {"ai_none", "ai_noname"} -> inference
         [] outcome \in {"inserted", "conflict"} -> stored \cup {"mark_as_read"}

\* variant: a refused insert is reported as a success too
Succeeded_onConflict(outcome) == outcome \in {"inserted", "conflict"}

\* process_single_email: the return value
Succeeded(outcome) == outcome = "inserted"

\* variant: the run set is not consulted
AlreadyProcessed_never(m, run_set) == FALSE

\* process_new_applications: the test that skips a message
AlreadyProcessed(m, run_set) == m \in run_set

\* variant: known_ids is not consulted
SkipReply_runSetOnly(m, known, run_set) == m \in run_set

\* process_replies: the test that skips a thread message
SkipReply(m, known, run_set) == m \in known \/ m \in run_set

\* the comparison of the sender with the literal 'me' in process_replies
MeLiteral == -1
IsOwn(sender) == sender = MeLiteral

\* address of the authenticated account (userId 'me' of the mail service):
\* the messages the system itself sends carry it in their From header
OwnAddress == 2

\* a new message reaches the mail source, unread
Arrive(m) ==
    /\ m \notin mailbox
    /\ mailbox' = mailbox \cup {m}
    /\ unread' = unread \cup {m}
    /\ sinceRun' = "none"
    /\ UNCHANGED <<dbVars, processed_message_ids_this_run, pc, appsVars,
                   repliesVars, last, fetched, run_start, attempted, aiFailed,
                   runKind,
                   runCreated>>
    /\ UNCHANGED queried
    /\ PoolIdle

\* ProcessingEngine.__init__: a new engine over the same mail source and storage
NewEngine ==
    /\ pc = "idle"
    /\ processed_message_ids_this_run # {}
    /\ processed_message_ids_this_run' = {}
    /\ aiFailed' = {}
    /\ sinceRun' = IF sinceRun = "quiet_same" THEN "quiet" ELSE sinceRun
    /\ UNCHANGED <<mailVars, dbVars, pc, appsVars, repliesVars, last, fetched,
                   run_start,
                   attempted, runKind, runCreated>>
    /\ UNCHANGED queried
    /\ PoolIdle

\* process_new_applications up to the loop: fetch_unread_emails returns the
\* unread candidates in some order, or [] when the listing fails
StartApps(fetchOk, order) ==
    /\ pc = "idle"
    /\ order \in (IF fetchOk THEN Listings(unread) ELSE {<< >>})
    /\ messages' = order
    /\ pc' = IF order = << >> THEN "idle" ELSE "apps"
    /\ successful_count' = 0
    /\ failed_count' = 0
    /\ fetched' = {order[i] : i \in DOMAIN order}
    /\ run_start' = IF order = << >> THEN {} ELSE processed_message_ids_this_run
    /\ attempted' = {}
    /\ runKind' = IF order = << >> THEN "first"
                  ELSE CASE sinceRun = "none" -> "first"
                         [] sinceRun = "quiet" -> "repeat"
                         [] sinceRun = "quiet_same" -> "repeat_same"
    /\ sinceRun' = IF fetchOk THEN "quiet_same" ELSE "quiet"
    /\ runCreated' = <<0, 0>>
    /\ last' = NoStep
    /\ UNCHANGED <<mailVars, dbVars, processed_message_ids_this_run,
                   repliesVars, aiFailed>>
    /\ UNCHANGED queried
    /\ PoolIdle

\* loop body of process_new_applications, message already in the run set
SkipProcessed ==
    /\ pc = "apps"
    /\ messages # << >>
    /\ AlreadyProcessed(Head(messages), processed_message_ids_this_run)
    /\ messages' = Tail(messages)
    /\ last' = [NoStep EXCEPT !.op = "skip", !.msg = Head(messages),
                              !.outcome = "skipped", !.inRunSet = TRUE,
                              !.again = (Head(messages) \in attempted),
                              !.wasPersisted =
                                  MessageExists(communications, Head(messages))]
    /\ UNCHANGED <<mailVars, dbVars, processed_message_ids_this_run, pc,
                   successful_count, failed_count, repliesVars, ghostVars>>
    /\ UNCHANGED queried
    /\ PoolIdle

\* process_single_email runs its whole body under try / except Exception and
\* answers False from the handler: no failure of a message leaves the call
Escapes_error(answer) == answer = "error"

Escapes(answer) == FALSE

\* loop body of process_new_applications: process_single_email on the message
ProcessSingleEmail(answer, markOk, dbError) ==
    /\ pc = "apps"
    /\ messages # << >>
    /\ ~AlreadyProcessed(Head(messages), processed_message_ids_this_run)
    /\ LET m == Head(messages)
           email_data == EmailData(m)
           r == IF answer = "valid"
                THEN insert_applicant_and_communication(applicants,
                         communications, email_data.sender, TRUE, email_data,
                         dbError)
                ELSE [apps |-> applicants, comms |-> communications, id |-> NoId]
           outcome == OutcomeOf(answer, r.id)
       IN /\ applicants' = r.apps
          /\ communications' = r.comms
          /\ unread' = IF MarksRead(outcome) THEN mark_as_read(unread, m, markOk)
                       ELSE unread
          /\ processed_message_ids_this_run' =
                 processed_message_ids_this_run \cup {m}
          /\ successful_count' = successful_count + (IF Succeeded(outcome) THEN 1 ELSE 0)
          /\ failed_count' = failed_count + (IF Succeeded(outcome) THEN 0 ELSE 1)
          /\ messages' = Tail(messages)
          /\ attempted' = attempted \cup {m}
          /\ aiFailed' = IF outcome \in {"ai_none", "ai_noname"}
                         THEN aiFailed \cup {m} ELSE aiFailed
          /\ runCreated' = <<runCreated[1] + Len(r.apps) - Len(applicants),
                             runCreated[2] + Len(r.comms) - Len(communications)>>
          /\ last' = [NoStep EXCEPT !.op = "email", !.msg = m,
                        !.outcome = outcome, !.id = r.id,
                        !.marked = MarksRead(outcome),
                        !.applied = (MarksRead(outcome) /\ markOk),
                        !.calls = Invoked(outcome),
                        !.again = (m \in attempted),
                        !.emailExisted = EmailExists(applicants, email_data.sender),
                        !.wasPersisted = MessageExists(communications, m),
                        !.changed = (r.apps # applicants \/ r.comms # communications),
                        !.counted = IF Succeeded(outcome) THEN "success"
                                    ELSE "failure",
                        !.dApps = Len(r.apps) - Len(applicants),
                        !.dComms = Len(r.comms) - Len(communications)]
    /\ pc' = IF Escapes(answer) THEN "aborted" ELSE pc
    /\ UNCHANGED <<mailbox, repliesVars, fetched, run_start, runKind, sinceRun>>
    /\ UNCHANGED queried
    /\ PoolIdle

\* process_new_applications returns (successful_count, failed_count)
FinishApps ==
    /\ pc = "apps"
    /\ messages = << >>
    /\ pc' = "idle"
    /\ successful_count' = 0
    /\ failed_count' = 0
    /\ fetched' = {}
    /\ run_start' = {}
    /\ attempted' = {}
    /\ runKind' = "first"
    /\ runCreated' = <<0, 0>>
    /\ last' = NoStep
    /\ UNCHANGED <<mailVars, dbVars, processed_message_ids_this_run, messages,
                   repliesVars, aiFailed, sinceRun>>
    /\ UNCHANGED queried
    /\ PoolIdle

\* DataImporter: insert_applicant_and_communication(applicant_data, {})
Import(email, nameOk, dbError) ==
    /\ LET r == insert_applicant_and_communication(applicants, communications,
                    email, nameOk, NoEmailData, dbError)
       IN /\ applicants' = r.apps
          /\ communications' = r.comms
          /\ last' = [NoStep EXCEPT !.op = "import", !.id = r.id,
                        !.outcome = IF r.id # NoId THEN "inserted" ELSE "conflict",
                        !.emailExisted = EmailExists(applicants, email),
                        !.changed = (r.apps # applicants \/ r.comms # communications),
                        !.dApps = Len(r.apps) - Len(applicants),
                        !.dComms = Len(r.comms) - Len(communications)]
    /\ UNCHANGED <<mailVars, processed_message_ids_this_run, pc, appsVars,
                   repliesVars, ghostVars>>
    /\ UNCHANGED queried
    /\ PoolIdle

\* messages of a thread as fetch_new_messages_in_thread lists them
RECURSIVE ThreadMessages(_, _, _)
ThreadMessages(box, t, m) ==
    IF m > MaxMsg THEN << >>
    ELSE (IF m \in box /\ ThreadOf(m) = t THEN <<m>> ELSE << >>)
         \o ThreadMessages(box, t, m + 1)

\* process_replies up to the loop: get_active_threads
StartReplies ==
    /\ pc = "idle"
    /\ pc' = "replies"
    /\ active_threads' = get_active_threads(applicants, 1)
    /\ messages_in_thread' = << >>
    /\ known_ids' = {}
    /\ cur_applicant' = NoId
    /\ count' = 0
    /\ last' = NoStep
    /\ queried' = applicants
    /\ UNCHANGED <<mailVars, dbVars, processed_message_ids_this_run, appsVars,
                   ghostVars>>
    /\ PoolIdle

\* EmailHandler.fetch_new_messages_in_thread: the thread's messages, and []
\* from its except Exception handler whatever the failure was; nothing is
\* raised to the caller
fetch_new_messages_in_thread(box, thread_id, answer) ==
    IF answer = "ok"
    THEN [raised |-> "none", msgs |-> ThreadMessages(box, thread_id, 1)]
    ELSE [raised |-> "none", msgs |-> << >>]

\* DatabaseHandler.update_applicant_thread_id
update_applicant_thread_id(apps, applicant_id, thread_id) ==
    [apps EXCEPT ![applicant_id].ThreadID = thread_id]

FetchAnswers == {"ok", "not_found", "error"}

\* outer loop body of process_replies: fetch the thread, clear the ThreadID
\* when the fetch raises HttpError 404, go on with the next thread on any
\* other exception (both handlers end in continue), and load known_ids when
\* the thread has messages
FetchThread(answer) ==
    /\ pc = "replies"
    /\ messages_in_thread = << >>
    /\ active_threads # << >>
    /\ LET applicant_id == Head(active_threads)[1]
           thread_id == Head(active_threads)[2]
           r == fetch_new_messages_in_thread(mailbox, thread_id, answer)
           msgs == r.msgs
       IN /\ messages_in_thread' = msgs
          /\ cur_applicant' = applicant_id
          /\ known_ids' = IF msgs = << >> THEN known_ids
                          ELSE PersistedIds(communications, applicant_id)
          /\ applicants' = IF r.raised = "404"
                           THEN update_applicant_thread_id(applicants,
                                    applicant_id, Null)
                           ELSE applicants
          /\ last' = [NoStep EXCEPT !.op = "thread", !.id = applicant_id,
                        !.outcome = answer]
    /\ active_threads' = Tail(active_threads)
    /\ UNCHANGED <<mailVars, communications, processed_message_ids_this_run,
                   pc, appsVars, count, ghostVars>>
    /\ UNCHANGED queried
    /\ PoolIdle

\* inner loop body of process_replies, message known or already handled
SkipKnownReply ==
    /\ pc = "replies"
    /\ messages_in_thread # << >>
    /\ SkipReply(Head(messages_in_thread), known_ids,
                 processed_message_ids_this_run)
    /\ messages_in_thread' = Tail(messages_in_thread)
    /\ last' = [NoStep EXCEPT !.op = "reply", !.msg = Head(messages_in_thread),
                  !.outcome = "skipped",
                  !.known = Head(messages_in_thread) \in
                              PersistedIds(communications, cur_applicant),
                  !.inRunSet = Head(messages_in_thread) \in
                                 processed_message_ids_this_run,
                  !.wasPersisted =
                      MessageExists(communications, Head(messages_in_thread))]
    /\ UNCHANGED <<mailVars, dbVars, processed_message_ids_this_run, pc,
                   appsVars, active_threads, known_ids, cur_applicant, count,
                   ghostVars>>
    /\ UNCHANGED queried
    /\ PoolIdle

\* inner loop body of process_replies on a message that is not skipped
ProcessReply(contentOk, dbError) ==
    /\ pc = "replies"
    /\ messages_in_thread # << >>
    /\ ~SkipReply(Head(messages_in_thread), known_ids,
                  processed_message_ids_this_run)
    /\ LET m == Head(messages_in_thread)
           email_data == EmailData(m)
           dropped == ~contentOk \/ IsOwn(email_data.sender)
           r == IF dropped THEN [comms |-> communications, id |-> NoId]
                ELSE insert_communication(communications, cur_applicant,
                                          email_data.id, dbError)
       IN /\ communications' = r.comms
          /\ count' = IF dropped THEN count ELSE count + 1
          /\ last' = [NoStep EXCEPT !.op = "reply", !.msg = m,
                        !.outcome = IF ~contentOk THEN "no_content"
                                    ELSE IF dropped THEN "own"
                                    ELSE IF r.id # NoId THEN "inserted"
                                    ELSE "not_inserted",
                        !.id = r.id,
                        !.known = m \in PersistedIds(communications, cur_applicant),
                        !.wasPersisted = MessageExists(communications, m),
                        !.changed = (r.comms # communications),
                        !.counted = IF dropped THEN "none" ELSE "reply",
                        !.dComms = Len(r.comms) - Len(communications)]
    /\ processed_message_ids_this_run' =
           processed_message_ids_this_run \cup {Head(messages_in_thread)}
    /\ messages_in_thread' = Tail(messages_in_thread)
    /\ UNCHANGED <<mailVars, applicants, pc, appsVars, active_threads,
                   known_ids, cur_applicant, ghostVars>>
    /\ UNCHANGED queried
    /\ PoolIdle

\* process_replies returns count
FinishReplies ==
    /\ pc = "replies"
    /\ messages_in_thread = << >>
    /\ active_threads = << >>
    /\ pc' = "idle"
    /\ count' = 0
    /\ known_ids' = {}
    /\ cur_applicant' = NoId
    /\ last' = NoStep
    /\ queried' = << >>
    /\ UNCHANGED <<mailVars, dbVars, processed_message_ids_this_run, appsVars,
                   active_threads, messages_in_thread, ghostVars>>
    /\ PoolIdle

\* the values the status select boxes of the dashboard offer; Shortlisted and
\* Interview Scheduled pass the filter of get_active_threads as New does
Statuses == {"New", "Rejected", "Hired"}

\* DatabaseHandler.update_applicant_status: UPDATE ... WHERE ID = ?, rolled
\* back when the storage layer fails
update_applicant_status(apps, applicant_id, new_status, dbError) ==
    IF dbError \/ applicant_id \notin DOMAIN apps THEN apps
    ELSE [apps EXCEPT ![applicant_id].Status = new_status]

\* the dashboard applies a status to an applicant, at any moment of a run
UpdateStatus(applicant_id, new_status, dbError) ==
    /\ applicant_id \in DOMAIN applicants
    /\ applicants' = update_applicant_status(applicants, applicant_id,
                                             new_status, dbError)
    /\ UNCHANGED <<mailVars, communications, processed_message_ids_this_run,
                   pc, appsVars, repliesVars, last, ghostVars, queried>>
    /\ PoolIdle

NewMail == \E m \in Msgs : Arrive(m)
BeginApps == \E fetchOk \in BOOLEAN : \E order \in Listings(unread) \cup {<< >>} :
                 StartApps(fetchOk, order)
HandleEmail == \E answer \in Answers, markOk \in BOOLEAN, dbError \in BOOLEAN :
                   ProcessSingleEmail(answer, markOk, dbError)
ImportApplicant == \E email \in Emails \cup {NoEmail}, nameOk \in BOOLEAN,
                      dbError \in BOOLEAN : Import(email, nameOk, dbError)
LoadThread == \E answer \in FetchAnswers : FetchThread(answer)
HandleReply == \E contentOk \in BOOLEAN, dbError \in BOOLEAN :
                   ProcessReply(contentOk, dbError)

Next ==
    \/ NewMail
    \/ NewEngine
    \/ BeginApps
    \/ SkipProcessed
    \/ HandleEmail
    \/ FinishApps
    \/ ImportApplicant
    \/ StartReplies
    \/ LoadThread
    \/ SkipKnownReply
    \/ HandleReply
    \/ FinishReplies

(* ------------------------- APIKeyPool ---------------------------------- *)

\* the list comprehension of get_next_available_key: keys whose limit expired
ExpiredKeys(rl, t) == {k \in DOMAIN rl : t > rl[k]}

\* deletion of the expired entries from rate_limited_keys
CleanRateLimits(rl, t) == [k \in (DOMAIN rl) \ ExpiredKeys(rl, t) |-> rl[k]]

\* variant: failed keys are not skipped
IsUsable_ignoreFailed(key, failed, rl) == key \notin DOMAIN rl

\* the test of the scan loop: key is neither failed nor rate limited
IsUsable(key, failed, rl) == key \notin failed /\ key \notin DOMAIN rl

\* variant: the cursor moves past the key that is handed out
RECURSIVE ScanKeys_reserving(_, _, _, _, _)
ScanKeys_reserving(keys, idx, attempts, failed, rl) ==
    IF attempts >= Len(keys)
    THEN [key |-> NoKey, idx |-> idx]
    ELSE IF IsUsable(keys[idx + 1], failed, rl)
         THEN [key |-> keys[idx + 1], idx |-> (idx + 1) % Len(keys)]
         ELSE ScanKeys_reserving(keys, (idx + 1) % Len(keys), attempts + 1,
                                 failed, rl)

\* the while loop of get_next_available_key
RECURSIVE ScanKeys(_, _, _, _, _)
ScanKeys(keys, idx, attempts, failed, rl) ==
    IF attempts >= Len(keys)
    THEN [key |-> NoKey, idx |-> idx]
    ELSE IF IsUsable(keys[idx + 1], failed, rl)
         THEN [key |-> keys[idx + 1], idx |-> idx]
         ELSE ScanKeys(keys, (idx + 1) % Len(keys), attempts + 1, failed, rl)

\* APIKeyPool.get_stats: the dict it returns, computed from the attributes
\* without assigning any of them
get_stats(keys, failed, rl, usage) ==
    [total_keys |-> Len(keys),
     available_keys |->
         Cardinality({i \in DOMAIN keys :
                         keys[i] \notin failed /\ keys[i] \notin DOMAIN rl}),
     failed_keys |-> Cardinality(failed),
     rate_limited_keys |-> Cardinality(DOMAIN rl),
     usage_counts |-> usage,
     key_statuses |->
         [k \in {keys[i] : i \in DOMAIN keys} |->
             IF k \in failed THEN "Failed"
             ELSE IF k \in DOMAIN rl THEN "Rate Limited"
             ELSE "Available"]]

PoolInit ==
    /\ api_keys = [i \in 1..NumKeys |-> i]
    /\ current_index = 0
    /\ failed_keys = {}
    /\ rate_limited_keys = << >>
    /\ usage_counts = [k \in Keys |-> 0]
    /\ now = 0
    /\ held = NoKey
    /\ fresh = FALSE
    /\ everFailed = {}
    /\ cycleLog = << >>


AllHealthy(failed, rl) == failed = {} /\ DOMAIN rl = {}

\* the last NumKeys + 1 keys of the run of consecutive cycles
Window(log) ==
    IF Len(log) > NumKeys + 1 THEN SubSeq(log, 2, Len(log)) ELSE log

RECURSIVE SumUses(_, _)
SumUses(u, n) == IF n = 0 THEN 0 ELSE u[n] + SumUses(u, n - 1)

get_next_available_key ==
    LET rl == CleanRateLimits(rate_limited_keys, now)
        r  == ScanKeys(api_keys, current_index, 0, failed_keys, rl)
    IN /\ rate_limited_keys' = rl
       /\ current_index' = r.idx
       /\ held' = r.key
       /\ fresh' = TRUE
       /\ cycleLog' = IF AllHealthy(failed_keys, rl) THEN cycleLog ELSE << >>
       /\ UNCHANGED <<api_keys, failed_keys, usage_counts, now, everFailed>>
       /\ UNCHANGED engineVars

\* variant: the cursor is not advanced
mark_key_used_noadvance(k) ==
    /\ UNCHANGED engineVars
    /\ SumUses(usage_counts, NumKeys) < MaxUses
    /\ usage_counts' = [usage_counts EXCEPT ![k] = @ + 1]
    /\ current_index' = current_index
    /\ cycleLog' = IF k = held /\ AllHealthy(failed_keys, rate_limited_keys)
                   THEN Window(Append(cycleLog, k)) ELSE << >>
    /\ held' = NoKey
    /\ fresh' = FALSE
    /\ UNCHANGED <<api_keys, failed_keys, rate_limited_keys, now, everFailed>>

mark_key_used(k) ==
    /\ UNCHANGED engineVars
    /\ SumUses(usage_counts, NumKeys) < MaxUses
    /\ usage_counts' = [usage_counts EXCEPT ![k] = @ + 1]
    /\ current_index' = (current_index + 1) % Len(api_keys)
    /\ cycleLog' = IF k = held /\ AllHealthy(failed_keys, rate_limited_keys)
                   THEN Window(Append(cycleLog, k)) ELSE << >>
    /\ held' = NoKey
    /\ fresh' = FALSE
    /\ UNCHANGED <<api_keys, failed_keys, rate_limited_keys, now, everFailed>>

mark_key_rate_limited(k, retry_after) ==
    /\ UNCHANGED engineVars
    /\ rate_limited_keys' =
         [j \in (DOMAIN rate_limited_keys) \cup {k} |->
             IF j = k THEN now + retry_after ELSE rate_limited_keys[j]]
    /\ cycleLog' = << >>
    /\ held' = NoKey
    /\ fresh' = FALSE
    /\ UNCHANGED <<api_keys, current_index, failed_keys, usage_counts, now,
                   everFailed>>

mark_key_failed(k) ==
    /\ UNCHANGED engineVars
    /\ failed_keys' = failed_keys \cup {k}
    /\ everFailed' = everFailed \cup {k}
    /\ cycleLog' = << >>
    /\ held' = NoKey
    /\ fresh' = FALSE
    /\ UNCHANGED <<api_keys, current_index, rate_limited_keys, usage_counts,
                   now>>

Tick ==
    /\ UNCHANGED engineVars
    /\ now < MaxTime
    /\ now' = now + 1
    /\ fresh' = FALSE
    /\ UNCHANGED <<api_keys, current_index, failed_keys, rate_limited_keys,
                   usage_counts, held, everFailed, cycleLog>>

GetKey == get_next_available_key /\ ExtractIdle
UseKey == (\E k \in Keys : mark_key_used(k)) /\ ExtractIdle
LimitKey == (\E k \in Keys, c \in 0..MaxCooldown : mark_key_rate_limited(k, c))
            /\ ExtractIdle
FailKey == (\E k \in Keys : mark_key_failed(k)) /\ ExtractIdle
Wait == Tick /\ ExtractIdle

PoolNext ==
    \/ GetKey
    \/ UseKey
    \/ LimitKey
    \/ FailKey
    \/ Wait

\* ---------------------------------------------------------------------------
\* AIClassifier._parse_and_clean_response and _normalize_domain.  Strings are
\* sequences of one-character strings.

MaxText == 5
MaxPhoneDigits == 12

Digits == {"0", "1", "2", "3", "4", "5", "6", "7", "8", "9"}

\* re.sub(r'\D', '', ...)
RECURSIVE strip_non_digits(_)
strip_non_digits(s) ==
    IF s = << >> THEN << >>
    ELSE (IF Head(s) \in Digits THEN <<Head(s)>> ELSE << >>)
         \o strip_non_digits(Tail(s))

\* variant: the first n digits are kept
Rightmost_leftmost(d, n) == SubSeq(d, 1, n)

\* phone_digits[-n:]
Rightmost(d, n) == SubSeq(d, Len(d) - n + 1, Len(d))

\* the phone branch of _parse_and_clean_response
clean_phone(phone) ==
    LET phone_digits == strip_non_digits(phone)
        d2 == IF Len(phone_digits) = 12 /\ SubSeq(phone_digits, 1, 2) = <<"9", "1">>
              THEN SubSeq(phone_digits, 3, Len(phone_digits))
              ELSE phone_digits
    IN IF Len(d2) >= 10 THEN Rightmost(d2, 10) ELSE d2

\* the response text in tokens: an opening brace, a closing brace, "x" for a
\* stretch of text that is not JSON (prose, code fence markers) and "m" for
\* the text of members of an object (keys, scalar values, commas)
Tokens == {"{", "}", "x", "m"}

\* opening minus closing braces among the first i tokens
RECURSIVE Depth(_, _)
Depth(s, i) ==
    IF i = 0 THEN 0
    ELSE Depth(s, i - 1) + (IF s[i] = "{" THEN 1 ELSE IF s[i] = "}" THEN -1 ELSE 0)

\* json.loads accepts the string: one object and nothing else, its braces
\* balanced, a nested object only as the value of a member
json_loads_ok(s) ==
    /\ Len(s) >= 2
    /\ s[1] = "{"
    /\ s[Len(s)] = "}"
    /\ \A i \in 1..Len(s) : s[i] # "x"
    /\ \A i \in 2..Len(s) : s[i] = "{" => s[i - 1] = "m"
    /\ \A i \in 1..(Len(s) - 1) : Depth(s, i) >= 1
    /\ Depth(s, Len(s)) = 0

FirstIndex(s, tok) ==
    IF \E i \in DOMAIN s : s[i] = tok
    THEN CHOOSE i \in DOMAIN s : s[i] = tok /\ \A j \in 1..(i - 1) : s[j] # tok
    ELSE 0

LastIndex(s, tok) ==
    IF \E i \in DOMAIN s : s[i] = tok
    THEN CHOOSE i \in DOMAIN s : s[i] = tok /\ \A j \in (i + 1)..Len(s) : s[j] # tok
    ELSE 0

\* re.search(r'\{.*\}', text, re.DOTALL).group(0): `.*` is greedy and DOTALL
\* lets it cross lines, so the match runs from the first opening brace to
\* the last closing brace of the text; << >> when nothing matches
regex_search(t) ==
    LET i == FirstIndex(t, "{")
        j == LastIndex(t, "}")
    IN IF i = 0 \/ j < i THEN << >> ELSE SubSeq(t, i, j)

NoData == [status |-> "none", obj |-> << >>, Phone |-> << >>]
Pending == [status |-> "pending", obj |-> << >>, Phone |-> << >>]

\* phone is the Phone member of the first object of the text
parse_and_clean_response(t, phone) ==
    LET json_str == regex_search(t)
    IN IF json_str = << >> THEN NoData            \* "No JSON found"
       ELSE IF ~json_loads_ok(json_str) THEN NoData   \* JSONDecodeError
       ELSE [status |-> "ok", obj |-> json_str,
             Phone |-> IF phone # << >> THEN clean_phone(phone) ELSE phone]

LowerLetters == <<"a", "b", "c", "d", "e", "f", "g", "h", "i", "j", "k", "l", "m", "n", "o", "p", "q", "r", "s", "t", "u", "v", "w", "x", "y", "z">>
UpperLetters == <<"A", "B", "C", "D", "E", "F", "G", "H", "I", "J", "K", "L", "M", "N", "O", "P", "Q", "R", "S", "T", "U", "V", "W", "X", "Y", "Z">>

IsLetter(c) == \E i \in 1..26 : LowerLetters[i] = c \/ UpperLetters[i] = c
LetterIndex(c) == CHOOSE i \in 1..26 : LowerLetters[i] = c \/ UpperLetters[i] = c
Lower(c) == IF IsLetter(c) THEN LowerLetters[LetterIndex(c)] ELSE c
Upper(c) == IF IsLetter(c) THEN UpperLetters[LetterIndex(c)] ELSE c

\* str.lower()
LowerStr(t) == [i \in 1..Len(t) |-> Lower(t[i])]

\* str.title(): a letter that follows a letter is lowered, any other letter
\* is raised
TitleStr(t) ==
    [i \in 1..Len(t) |->
        IF ~IsLetter(t[i]) THEN t[i]
        ELSE IF i > 1 /\ IsLetter(t[i - 1]) THEN Lower(t[i]) ELSE Upper(t[i])]

\* `keyword in domain_lower`
Contains(hay, needle) ==
    \E i \in 1..(Len(hay) - Len(needle) + 1) :
        SubSeq(hay, i, i + Len(needle) - 1) = needle

\* the dict role_map, in insertion order
role_map ==
    <<
      [label |-> <<"D", "e", "v", "O", "p", "s", " ", "E", "n", "g", "i", "n", "e", "e", "r">>,
       keywords |-> <<<<"d", "e", "v", "o", "p", "s">>,
                      <<"a", "w", "s", " ", "c", "l", "o", "u", "d", " ", "e", "n", "g", "i", "n", "e", "e", "r">>>>],
      [label |-> <<"F", "u", "l", "l", " ", "S", "t", "a", "c", "k", " ", "D", "e", "v", "e", "l", "o", "p", "e", "r">>,
       keywords |-> <<<<"f", "u", "l", "l", " ", "s", "t", "a", "c", "k">>,
                      <<"f", "u", "l", "l", "s", "t", "a", "c", "k">>>>],
      [label |-> <<"A", "I", "/", "M", "L", " ", "E", "n", "g", "i", "n", "e", "e", "r">>,
       keywords |-> <<<<"a", "i", "/", "m", "l">>,
                      <<"m", "a", "c", "h", "i", "n", "e", " ", "l", "e", "a", "r", "n", "i", "n", "g">>,
                      <<"m", "l", " ", "e", "n", "g", "i", "n", "e", "e", "r">>>>],
      [label |-> <<"Q", "A", " ", "E", "n", "g", "i", "n", "e", "e", "r">>,
       keywords |-> <<<<"q", "a">>,
                      <<"q", "u", "a", "l", "i", "t", "y", " ", "a", "s", "s", "u", "r", "a", "n", "c", "e">>,
                      <<"t", "e", "s", "t", "i", "n", "g">>>>],
      [label |-> <<"S", "o", "f", "t", "w", "a", "r", "e", " ", "D", "e", "v", "e", "l", "o", "p", "e", "r">>,
       keywords |-> <<<<"s", "o", "f", "t", "w", "a", "r", "e", " ", "d", "e", "v", "e", "l", "o", "p", "e", "r">>,
                      <<"s", "o", "f", "t", "w", "a", "r", "e", " ", "e", "n", "g", "i", "n", "e", "e", "r">>>>],
      [label |-> <<"D", "i", "g", "i", "t", "a", "l", " ", "M", "a", "r", "k", "e", "t", "i", "n", "g">>,
       keywords |-> <<<<"d", "i", "g", "i", "t", "a", "l", " ", "m", "a", "r", "k", "e", "t", "i", "n", "g">>,
                      <<"p", "p", "c">>>>],
      [label |-> <<"C", "o", "n", "t", "e", "n", "t">>,
       keywords |-> <<<<"c", "o", "n", "t", "e", "n", "t", " ", "w", "r", "i", "t", "i", "n", "g">>,
                      <<"c", "o", "n", "t", "e", "n", "t", " ", "c", "r", "e", "a", "t", "i", "o", "n">>,
                      <<"c", "o", "p", "y", "w", "r", "i", "t", "i", "n", "g">>>>],
      [label |-> <<"U", "I", "/", "U", "X">>,
       keywords |-> <<<<"u", "i", "/", "u", "x">>,
                      <<"u", "i">>,
                      <<"u", "x">>,
                      <<"d", "e", "s", "i", "g", "n", "e", "r">>>>]
    >>

Other == <<"O", "t", "h", "e", "r">>
NoRole == << >>

\* the two nested for loops over role_map
RECURSIVE ScanRoles(_, _)
ScanRoles(domain_lower, i) ==
    IF i > Len(role_map) THEN NoRole
    ELSE IF \E k \in DOMAIN role_map[i].keywords :
                Contains(domain_lower, role_map[i].keywords[k])
         THEN role_map[i].label
         ELSE ScanRoles(domain_lower, i + 1)

normalize_domain(domain_text) ==
    IF domain_text = << >> THEN Other
    ELSE LET r == ScanRoles(LowerStr(domain_text), 1)
         IN IF r # NoRole THEN r ELSE TitleStr(domain_text)

\* response texts, Phone values and Domain values the parser is applied to
Texts == UNION {[1..n -> Tokens] : n \in 0..MaxText}

PhonePattern == <<"9", "8", "7", "6", "5", "4", "3", "2", "1", "0", "9", "8", "7", "6", "5", "4", "3", "2", "1", "0">>
PhonePrefixes == {<< >>, <<"+", "9", "1", " ">>, <<"9", "1">>, <<"0">>, <<"+", "1", "-">>, <<"(", "9", "1", ")", " ">>}
PhoneBody(n, spaced) ==
    IF spaced /\ n > 5
    THEN SubSeq(PhonePattern, 1, 5) \o <<" ">> \o SubSeq(PhonePattern, 6, n)
    ELSE SubSeq(PhonePattern, 1, n)
PhoneInputs ==
    {pre \o PhoneBody(n, spaced) :
        pre \in PhonePrefixes, n \in 0..MaxPhoneDigits, spaced \in BOOLEAN}
    \cup {<<"+", "9", "1", " ", "9", "8", "7", "6", "5", " ", "4", "3", "2", "1", "0">>, <<"1", "2", "3", "4", "5">>, <<"9", "1", "9", "8", "7", "6", "5", "4", "3", "2", "1", "0">>, <<"N", "/", "A">>}

DomainExamples ==
    {<<"S", "e", "n", "i", "o", "r", " ", "D", "e", "v", "O", "p", "s", " ", "E", "n", "g", "i", "n", "e", "e", "r">>,
     <<"F", "u", "l", "l", "-", "S", "t", "a", "c", "k", " ", "D", "e", "v">>,
     <<"B", "l", "o", "c", "k", "c", "h", "a", "i", "n", " ", "S", "p", "e", "c", "i", "a", "l", "i", "s", "t">>,
     <<"Q", "A", " ", "T", "e", "s", "t", "e", "r">>,
     <<"S", "o", "f", "t", "w", "a", "r", "e", " ", "E", "n", "g", "i", "n", "e", "e", "r", " ", "i", "n", " ", "T", "e", "s", "t", "i", "n", "g">>,
     <<"F", "U", "L", "L", "S", "T", "A", "C", "K", " ", "d", "e", "v", "e", "l", "o", "p", "e", "r">>,
     <<"m", "a", "c", "h", "i", "n", "e", " ", "l", "e", "a", "r", "n", "i", "n", "g">>,
     <<"U", "X", " ", "D", "e", "s", "i", "g", "n", "e", "r">>,
     <<"C", "o", "n", "t", "e", "n", "t", " ", "W", "r", "i", "t", "i", "n", "g">>,
     <<"P", "P", "C", " ", "A", "n", "a", "l", "y", "s", "t">>,
     <<"Q", "u", "a", "l", "i", "t", "y", " ", "G", "u", "i", "d", "e">>}
DomainInputs ==
    UNION {{SubSeq(e, 1, n) : n \in 0..Len(e)} \cup
           {SubSeq(e, n, Len(e)) : n \in 1..Len(e)} : e \in DomainExamples}

SampleText == <<"x", "{", "m", "}", "x">>
SamplePhone == <<"+", "9", "1", " ", "9", "8", "7", "6", "5", " ", "4", "3", "2", "1", "0">>
SampleDomain == <<"S", "e", "n", "i", "o", "r", " ", "D", "e", "v", "O", "p", "s", " ", "E", "n", "g", "i", "n", "e", "e", "r">>

ParseInit ==
    /\ text = << >>
    /\ phone_in = << >>
    /\ domain_in = << >>
    /\ parsed = Pending
    /\ domain_out = [done |-> FALSE, value |-> << >>]

ParseInputs ==
    /\ \/ text \in Texts /\ phone_in = SamplePhone /\ domain_in = SampleDomain
       \/ text = SampleText /\ phone_in \in PhoneInputs /\ domain_in = SampleDomain
       \/ text = SampleText /\ phone_in = SamplePhone /\ domain_in \in DomainInputs
    /\ parsed = Pending
    /\ domain_out = [done |-> FALSE, value |-> << >>]

\* _parse_and_clean_response(response.text)
ParseResponse ==
    /\ parsed.status = "pending"
    /\ parsed' = parse_and_clean_response(text, phone_in)
    /\ UNCHANGED <<text, phone_in, domain_in, domain_out>>
    /\ UNCHANGED <<poolVars, extractVars, pipelineVars>>
    /\ SideIdle

\* extract_info on a result: result['Domain'] = _normalize_domain(...)
NormalizeDomain ==
    /\ parsed.status = "ok"
    /\ ~domain_out.done
    /\ domain_out' = [done |-> TRUE, value |-> normalize_domain(domain_in)]
    /\ UNCHANGED <<text, phone_in, domain_in, parsed>>
    /\ UNCHANGED <<poolVars, extractVars, pipelineVars>>
    /\ SideIdle

ParseNext ==
    \/ ParseResponse
    \/ NormalizeDomain

\* ---------------------------------------------------------------------------
\* AIClassifier.extract_info and its retry loop

\* AIClassifier.max_retries and max_delay
max_retries == 3
max_delay == 30

\* the default of _extract_retry_after, in seconds; one unit of the pool's
\* clock stands for this many seconds
DefaultRetryAfter == 3600

NoAttempt == [outcome |-> "none", key |-> NoKey, at |-> 0,
              msg |-> [form |-> "none", n |-> 0], retry_after |-> 0,
              failed |-> {}, rl |-> << >>, usage |-> << >>, idx |-> 0]

ExtractInit ==
    /\ xpc = "idle"
    /\ attempt = 0
    /\ api_key = NoKey
    /\ provider_calls = 0
    /\ sleeps = 0
    /\ result = "pending"
    /\ exit = "none"
    /\ startLimited = FALSE
    /\ xlast = NoAttempt
    /\ total_delay = 0
    /\ returned = 0

\* what one generate_content call can come to: a response (an object, an
\* object whose Domain makes _normalize_domain raise, no text, text without
\* braces, braces around something that is not JSON, an empty object) or one
\* of the exceptions the loop body has a handler for
ProviderOutcomes == {"ok", "ok_bad_domain", "empty", "no_json", "bad_json",
                     "empty_object", "quota", "invalid", "unauthenticated",
                     "error"}
Raises == {"quota", "invalid", "unauthenticated", "error"}

\* response.text of the outcomes that are responses
ResponseText(outcome) ==
    CASE outcome \in {"ok", "ok_bad_domain"} -> SampleText
      [] outcome = "no_json" -> <<"x", "x">>
      [] outcome = "bad_json" -> <<"{", "x", "}">>
      [] outcome = "empty_object" -> <<"x", "{", "}">>
      [] OTHER -> << >>

\* `if response and response.text:` and then `if result:` on what
\* _parse_and_clean_response returned (an empty dict is false)
HasResult(outcome) ==
    /\ outcome \notin Raises
    /\ ResponseText(outcome) # << >>
    /\ LET r == parse_and_clean_response(ResponseText(outcome), << >>)
       IN r.status = "ok" /\ r.obj # <<"{", "}">>

\* the text of a ResourceExhausted error, by the first pattern of
\* _extract_retry_after it matches and the number found there
NoMessage == [form |-> "none", n |-> 0]
QuotaMessages ==
    {[form |-> f, n |-> n] : f \in {"seconds", "hour", "minute"},
                             n \in 0..MaxCooldown} \cup {NoMessage}

\* AIClassifier._extract_retry_after, in seconds
extract_retry_after(msg) ==
    CASE msg.form = "seconds" -> msg.n
      [] msg.form = "hour" -> msg.n * 3600
      [] msg.form = "minute" -> msg.n * 60
      [] OTHER -> DefaultRetryAfter

\* seconds in whole units of the clock
Ticks(seconds) == seconds \div DefaultRetryAfter

\* every key is rate limited and its cooldown has not run out
AllRateLimited ==
    \A k \in Keys : k \in DOMAIN rate_limited_keys /\ now < rate_limited_keys[k]

\* extract_info is called
StartExtract ==
    /\ xpc = "idle"
    /\ SideIdle
    /\ xpc' = "loop"
    /\ startLimited' = AllRateLimited
    /\ UNCHANGED <<attempt, api_key, provider_calls, sleeps, result, exit,
                   xlast, total_delay, returned>>
    /\ UNCHANGED <<poolVars, engineVars>>

\* variant: the loop goes on without a key
Exhausted_never(key) == FALSE

\* `if not api_key`
Exhausted(key) == key = NoKey

\* top of the loop body: get_next_available_key, and return None without a key
AcquireKey ==
    /\ xpc = "loop"
    /\ SideIdle
    /\ attempt < max_retries
    /\ get_next_available_key
    /\ api_key' = held'
    /\ IF Exhausted(held')
       THEN xpc' = "done" /\ result' = "none" /\ exit' = "no_key"
       ELSE xpc' = "invoke" /\ UNCHANGED <<result, exit>>
    /\ total_delay' = 0
    /\ UNCHANGED <<attempt, provider_calls, sleeps, startLimited, xlast,
                   returned>>

\* variant: a failed attempt is never the last one
LastAttempt_never(a) == FALSE

\* `if attempt < self.max_retries - 1` is false: the loop is over
LastAttempt(a) == ~(a < max_retries - 1)

\* variant: a quota error marks nothing
HandlerOf_quotaIgnored(outcome) ==
    IF HasResult(outcome) THEN "used"
    ELSE IF outcome \in {"invalid", "unauthenticated"} THEN "failed"
    ELSE "none"

\* variant: an authentication error marks nothing
HandlerOf_authIgnored(outcome) ==
    IF HasResult(outcome) THEN "used"
    ELSE IF outcome = "quota" THEN "rate_limited"
    ELSE IF outcome = "invalid" THEN "failed"
    ELSE "none"

\* variant: any other exception marks the key failed
HandlerOf_errorFails(outcome) ==
    IF HasResult(outcome) THEN "used"
    ELSE IF outcome = "quota" THEN "rate_limited"
    ELSE IF outcome \in {"invalid", "unauthenticated", "error"} THEN "failed"
    ELSE "none"

\* variant: a response without a result marks the key used
HandlerOf_emptyUsed(outcome) ==
    IF outcome \notin Raises THEN "used"
    ELSE IF outcome = "quota" THEN "rate_limited"
    ELSE IF outcome \in {"invalid", "unauthenticated"} THEN "failed"
    ELSE "none"

\* the pool method the loop body calls for an outcome: mark_key_used on a
\* result, the except clauses otherwise
HandlerOf(outcome) ==
    IF HasResult(outcome) THEN "used"
    ELSE IF outcome = "quota" THEN "rate_limited"
    ELSE IF outcome \in {"invalid", "unauthenticated"} THEN "failed"
    ELSE "none"

\* rest of the loop body: the provider call, the parse of its answer and the
\* handler of what it raised; msg is the text of a quota error
InvokeProvider(outcome, msg) ==
    /\ xpc = "invoke"
    /\ SideIdle
    /\ api_key = NoKey => outcome = "error"
    /\ outcome # "quota" => msg = NoMessage
    /\ provider_calls' = provider_calls + 1
    /\ LET h == HandlerOf(outcome)
           retry_after == extract_retry_after(msg)
       IN /\ CASE h = "used" -> mark_key_used(api_key)
               [] h = "rate_limited" ->
                      mark_key_rate_limited(api_key, Ticks(retry_after))
               [] h = "failed" -> mark_key_failed(api_key)
               [] OTHER -> UNCHANGED <<poolVars, engineVars>>
          /\ xlast' = [outcome |-> outcome, key |-> api_key, at |-> now,
                       msg |-> msg,
                       retry_after |-> IF outcome = "quota" THEN retry_after
                                       ELSE 0,
                       failed |-> failed_keys, rl |-> rate_limited_keys,
                       usage |-> usage_counts, idx |-> current_index]
          /\ IF h = "used"
             THEN /\ xpc' = "done"
                  /\ result' = IF outcome = "ok_bad_domain" THEN "none"
                               ELSE "parsed"
                  /\ exit' = IF outcome = "ok_bad_domain" THEN "exception"
                             ELSE "result"
                  /\ returned' = IF outcome = "ok_bad_domain" THEN returned
                                 ELSE returned + 1
             ELSE IF LastAttempt(attempt)
             THEN /\ xpc' = "done" /\ result' = "none" /\ exit' = "retries"
                  /\ UNCHANGED returned
             ELSE xpc' = "sleep" /\ UNCHANGED <<result, exit, returned>>
    /\ UNCHANGED <<attempt, api_key, sleeps, startLimited, total_delay>>

\* delay = min(60, self.max_delay)
backoff_delay == IF 60 < max_delay THEN 60 ELSE max_delay

\* random.uniform(0, 0.1 * delay), in whole seconds: the two ends of the range
Jitters == {0, backoff_delay \div 10}

\* variant: the jitter counts twice
sleep_time_wide(jitter) == backoff_delay + 2 * jitter

\* total_delay = delay + jitter
sleep_time(jitter) == backoff_delay + jitter

\* what is kept of an attempt once the next one is under way: its key and
\* whether it ended in a quota error
Earlier(a) ==
    [NoAttempt EXCEPT !.key = a.key,
                      !.outcome = IF a.outcome = "quota" THEN "quota"
                                  ELSE "failed"]

\* time.sleep(total_delay) between two attempts; the sleep moves the clock
\* by less than one unit or into the next one
SleepRetry(d, jitter) ==
    /\ xpc = "sleep"
    /\ SideIdle
    /\ now + d <= MaxTime
    /\ now' = now + d
    /\ fresh' = FALSE
    /\ sleeps' = sleeps + 1
    /\ total_delay' = sleep_time(jitter)
    /\ attempt' = attempt + 1
    /\ xpc' = "loop"
    /\ UNCHANGED <<api_keys, current_index, failed_keys, rate_limited_keys,
                   usage_counts, held, everFailed, cycleLog>>
    /\ xlast' = Earlier(xlast)
    /\ UNCHANGED <<api_key, provider_calls, result, exit, startLimited,
                   returned>>
    /\ UNCHANGED engineVars

\* the caller has the return value; the locals are gone
FinishExtract ==
    /\ xpc = "done"
    /\ SideIdle
    /\ xpc' = "idle"
    /\ attempt' = 0
    /\ api_key' = NoKey
    /\ provider_calls' = 0
    /\ sleeps' = 0
    /\ result' = "pending"
    /\ exit' = "none"
    /\ startLimited' = FALSE
    /\ xlast' = NoAttempt
    /\ total_delay' = 0
    /\ UNCHANGED returned
    /\ UNCHANGED <<poolVars, engineVars>>

\* time passes between two calls
IdleWait == xpc = "idle" /\ Tick /\ ExtractIdle

CallProvider ==
    \E outcome \in ProviderOutcomes, msg \in QuotaMessages :
        InvokeProvider(outcome, msg)
Backoff == \E d \in {0, 1}, jitter \in Jitters : SleepRetry(d, jitter)

ExtractNext ==
    \/ StartExtract
    \/ AcquireKey
    \/ CallProvider
    \/ Backoff
    \/ FinishExtract
    \/ IdleWait

ChangeStatus == \E applicant_id \in DOMAIN applicants, new_status \in Statuses,
                   dbError \in BOOLEAN :
                    UpdateStatus(applicant_id, new_status, dbError)

\* process_replies and what goes on around it: mail arriving, the dashboard
\* changing a status, a new session
RepliesNext ==
    \/ NewMail
    \/ NewEngine
    \/ ChangeStatus
    \/ StartReplies
    \/ LoadThread
    \/ SkipKnownReply
    \/ HandleReply
    \/ FinishReplies

\* storage and mail source after an earlier session ingested message m0 as an
\* application and, possibly, the importer added an applicant without thread
Ingested(m0, imported) ==
    /\ mailbox = {m0}
    /\ unread = {}
    /\ applicants =
          <<[Email |-> SenderOf(m0), ThreadID |-> ThreadOf(m0), Status |-> "New"]>>
          \o (IF imported
              THEN <<[Email |-> 3 - SenderOf(m0), ThreadID |-> Null,
                      Status |-> "New"]>>
              ELSE << >>)
    /\ communications =
          <<[ApplicantID |-> 1, GmailMessageID |-> m0, Direction |-> "Incoming"]>>

RepliesInit ==
    /\ \E m0 \in Msgs, imported \in BOOLEAN : Ingested(m0, imported)
    /\ processed_message_ids_this_run = {}
    /\ pc = "idle"
    /\ messages = << >>
    /\ successful_count = 0
    /\ failed_count = 0
    /\ active_threads = << >>
    /\ messages_in_thread = << >>
    /\ known_ids = {}
    /\ cur_applicant = NoId
    /\ count = 0
    /\ last = NoStep
    /\ fetched = {}
    /\ run_start = {}
    /\ attempted = {}
    /\ aiFailed = {}
    /\ runKind = "first"
    /\ sinceRun = "quiet"
    /\ runCreated = <<0, 0>>
    /\ queried = << >>

\* ---------------------------------------------------------------------------
\* two extract_info calls on one AIClassifier, hence on one APIKeyPool, with
\* nothing that orders them: each pool method runs as one step

Callers == {"a", "b"}

RaceInit ==
    /\ holding = [c \in Callers |-> NoKey]
    /\ uses = << >>
    /\ overlapped = FALSE

\* line 137 of the retry loop: api_key = get_next_available_key()
CallerGet(c) ==
    /\ holding[c] = NoKey
    /\ get_next_available_key
    /\ holding' = [holding EXCEPT ![c] = held']
    /\ overlapped' = (overlapped \/ (held' # NoKey /\
                         \E d \in Callers \ {c} : holding[d] = held'))
    /\ UNCHANGED <<uses, extractVars, syncVars>>

\* what the handlers of the retry loop do to the pool
Handlers == {"used", "rate_limited", "failed", "none"}

\* the rest of the attempt: the provider call and the pool method its
\* outcome leads to
CallerReport(c, handler, retry_after) ==
    /\ holding[c] # NoKey
    /\ handler # "rate_limited" => retry_after = 0
    /\ CASE handler = "used" -> mark_key_used(holding[c])
         [] handler = "rate_limited" ->
                mark_key_rate_limited(holding[c], retry_after)
         [] handler = "failed" -> mark_key_failed(holding[c])
         [] OTHER -> UNCHANGED <<poolVars, engineVars>>
    /\ holding' = [holding EXCEPT ![c] = NoKey]
    /\ uses' = IF handler = "used" THEN Append(uses, holding[c]) ELSE uses
    /\ UNCHANGED <<overlapped, extractVars, syncVars>>

RaceGet == \E c \in Callers : CallerGet(c)
RaceReport == \E c \in Callers, handler \in Handlers,
                 retry_after \in 0..MaxCooldown :
                  CallerReport(c, handler, retry_after)
RaceWait == Tick /\ ExtractIdle

RaceNext ==
    \/ RaceGet
    \/ RaceReport
    \/ RaceWait

\* ---------------------------------------------------------------------------
\* the Sync Emails button of the dashboard and the background_sync thread.
\* A session executes one script run at a time.  The thread is started without
\* a script run context, and what st.session_state is inside such a thread is
\* the framework's decision: the session's own state, or a state of its own
\* whose writes the session never sees.  Both are modelled (attached).

MaxSyncs == 2

NoResult == [by |-> 0, new_applications |-> 0, failed_classifications |-> 0,
             new_replies |-> 0]

SyncInit ==
    /\ sync_in_progress = FALSE
    /\ script_pc = "idle"
    /\ threads = << >>
    /\ notification_queue = << >>
    /\ sync_results = NoResult

\* variant: the button is rendered whatever the flag says
ButtonShown_always(flag) == TRUE

\* render_dashboard: `if not st.session_state.sync_in_progress`
ButtonShown(flag) == ~flag

\* the user presses Sync Emails: the flag is set
Click ==
    /\ script_pc = "idle"
    /\ ButtonShown(sync_in_progress)
    /\ Len(threads) < MaxSyncs
    /\ sync_in_progress' = TRUE
    /\ script_pc' = "thread"
    /\ UNCHANGED <<threads, notification_queue, sync_results>>
    /\ UNCHANGED <<poolVars, engineVars, extractVars, raceVars>>

\* threading.Thread(target=background_sync, ...).start(), then st.rerun()
StartThread(attached) ==
    /\ script_pc = "thread"
    /\ threads' = Append(threads, [pc |-> "begin", sent |-> << >>,
                                   attached |-> attached,
                                   new_apps |-> 0, failed |-> 0, replies |-> 0])
    /\ script_pc' = "idle"
    /\ UNCHANGED <<sync_in_progress, notification_queue, sync_results>>
    /\ UNCHANGED <<poolVars, engineVars, extractVars, raceVars>>

\* render_dashboard: one turn of the loop that shows the queued notifications
ShowNotification ==
    /\ script_pc = "idle"
    /\ notification_queue # << >>
    /\ notification_queue' = Tail(notification_queue)
    /\ UNCHANGED <<sync_in_progress, script_pc, threads, sync_results>>
    /\ UNCHANGED <<poolVars, engineVars, extractVars, raceVars>>

\* thread w puts the notifications of notes on the queue and moves to next
Put(w, notes, next) ==
    /\ notification_queue' = notification_queue \o notes
    /\ threads' = [threads EXCEPT ![w].pc = next, ![w].sent = @ \o notes]

\* background_sync: the start notification
Begin(w) ==
    /\ threads[w].pc = "begin"
    /\ Put(w, <<"start">>, "apps")
    /\ UNCHANGED <<sync_in_progress, script_pc, sync_results>>
    /\ UNCHANGED <<poolVars, engineVars, extractVars, raceVars>>

\* background_sync: engine.process_new_applications(), which handles every
\* failure itself and returns the two counts
RunApps(w, new_apps, failed) ==
    /\ threads[w].pc = "apps"
    /\ threads' = [threads EXCEPT ![w].pc = "replies",
                                  ![w].new_apps = new_apps,
                                  ![w].failed = failed]
    /\ UNCHANGED <<sync_in_progress, script_pc, notification_queue,
                   sync_results>>
    /\ UNCHANGED <<poolVars, engineVars, extractVars, raceVars>>

\* background_sync: engine.process_replies(), which returns its count or
\* raises what get_active_threads or get_conversations raise
RunReplies(w, raised, replies) ==
    /\ threads[w].pc = "replies"
    /\ threads' = [threads EXCEPT ![w].pc = IF raised THEN "except" ELSE "store",
                                  ![w].replies = IF raised THEN 0 ELSE replies]
    /\ UNCHANGED <<sync_in_progress, script_pc, notification_queue,
                   sync_results>>
    /\ UNCHANGED <<poolVars, engineVars, extractVars, raceVars>>

\* a write of st.session_state made by thread w
SessionWrite(w, old, new) == IF threads[w].attached THEN new ELSE old

\* background_sync: st.session_state.sync_results = result
StoreResult(w) ==
    /\ threads[w].pc = "store"
    /\ sync_results' = SessionWrite(w, sync_results,
                            [by |-> w,
                             new_applications |-> threads[w].new_apps,
                             failed_classifications |-> threads[w].failed,
                             new_replies |-> threads[w].replies])
    /\ threads' = [threads EXCEPT ![w].pc = "notify"]
    /\ UNCHANGED <<sync_in_progress, script_pc, notification_queue>>
    /\ UNCHANGED <<poolVars, engineVars, extractVars, raceVars>>

\* variant: a run that found nothing new says nothing
CompletionNotes_silent(new_apps, failed, replies) ==
    (IF new_apps > 0 THEN <<"apps">> ELSE << >>)
    \o (IF failed > 0 THEN <<"failed_classifications">> ELSE << >>)
    \o (IF replies > 0 THEN <<"replies">> ELSE << >>)
    \o (IF new_apps + failed + replies > 0 THEN <<"completed">> ELSE << >>)

\* background_sync: the notifications of a run that went through
CompletionNotes(new_apps, failed, replies) ==
    (IF new_apps > 0 THEN <<"apps">> ELSE << >>)
    \o (IF failed > 0 THEN <<"failed_classifications">> ELSE << >>)
    \o (IF replies > 0 THEN <<"replies">> ELSE << >>)
    \o <<"completed">>

NotifyCompleted(w) ==
    /\ threads[w].pc = "notify"
    /\ Put(w, CompletionNotes(threads[w].new_apps, threads[w].failed,
                              threads[w].replies), "finally")
    /\ UNCHANGED <<sync_in_progress, script_pc, sync_results>>
    /\ UNCHANGED <<poolVars, engineVars, extractVars, raceVars>>

\* background_sync: except Exception
NotifyFailed(w) ==
    /\ threads[w].pc = "except"
    /\ Put(w, <<"failed">>, "finally")
    /\ UNCHANGED <<sync_in_progress, script_pc, sync_results>>
    /\ UNCHANGED <<poolVars, engineVars, extractVars, raceVars>>

\* background_sync: finally
ClearFlag(w) ==
    /\ threads[w].pc = "finally"
    /\ sync_in_progress' = SessionWrite(w, sync_in_progress, FALSE)
    /\ threads' = [threads EXCEPT ![w].pc = "ended"]
    /\ UNCHANGED <<script_pc, notification_queue, sync_results>>
    /\ UNCHANGED <<poolVars, engineVars, extractVars, raceVars>>

\* one step of thread w
WorkerStep(w) ==
    /\ w \in DOMAIN threads
    /\ \/ Begin(w)
       \/ \E new_apps \in 0..1, failed \in 0..1 : RunApps(w, new_apps, failed)
       \/ \E raised \in BOOLEAN, replies \in 0..1 : RunReplies(w, raised, replies)
       \/ StoreResult(w)
       \/ NotifyCompleted(w)
       \/ NotifyFailed(w)
       \/ ClearFlag(w)

Worker == \E w \in 1..MaxSyncs : WorkerStep(w)

SyncNext ==
    \/ Click
    \/ \E attached \in BOOLEAN : StartThread(attached)
    \/ ShowNotification
    \/ Worker

\* the script run goes on after setting the flag, and a started thread runs
\* to its end: every call it makes returns or raises
SyncFairness ==
    /\ WF_vars(\E attached \in BOOLEAN : StartThread(attached))
    /\ \A w \in 1..MaxSyncs : WF_vars(WorkerStep(w))

SideInit == RaceInit /\ SyncInit

Init == PoolInit /\ EngineInit /\ ExtractInit /\ ParseInit /\ SideInit

InitReplies == PoolInit /\ RepliesInit /\ ExtractInit /\ ParseInit /\ SideInit

InitParse == PoolInit /\ EngineInit /\ ExtractInit /\ ParseInputs /\ SideInit

Spec == Init /\ [][Next]_vars

SpecPool == Init /\ [][PoolNext]_vars

SpecExtract == Init /\ [][ExtractNext]_vars

SpecParse == InitParse /\ [][ParseNext]_vars

SpecReplies == InitReplies /\ [][RepliesNext]_vars

SpecRace == Init /\ [][RaceNext]_vars

SpecSync == Init /\ [][SyncNext]_vars /\ SyncFairness

\* process_replies run again and again by one engine, on applicants whose
\* status is left alone
SameEngineNext ==
    \/ NewMail
    \/ StartReplies
    \/ LoadThread
    \/ SkipKnownReply
    \/ HandleReply
    \/ FinishReplies

\* the session goes on syncing, every loop of process_replies goes on, and
\* the mail source and storage answer again and again
SameEngineFairness ==
    /\ WF_vars(StartReplies)
    /\ WF_vars(SkipKnownReply)
    /\ WF_vars(FinishReplies)
    /\ SF_vars(FetchThread("ok"))
    /\ SF_vars(ProcessReply(TRUE, FALSE))

SpecSameEngine == InitReplies /\ [][SameEngineNext]_vars /\ SameEngineFairness

(* ------------------------------ claims --------------------------------- *)

\* process_new_applications has run through its whole message list
AppsRunDone == pc = "apps" /\ messages = << >>

\* the latest step called insert_applicant_and_communication
InsertCalled ==
    \/ last.op = "import"
    \/ last.op = "email" /\ last.outcome \in {"inserted", "conflict"}

\* C1: a message whose classification failed in an earlier run of this engine
\* and that the mail source lists again is handed to process_single_email by
\* the run that fetched it.
C1_FailedMessageRetried ==
    AppsRunDone => \A m \in fetched \cap aiFailed : m \in attempted

\* C2: when the inference call gives no result or an empty Name for a message,
\* process_single_email does not call mark_as_read for it, the message stays
\* unread, and it is counted as a failure of the run.
C2_ClassificationFailureLeftUnread ==
    (last.op = "email" /\ last.outcome \in {"ai_none", "ai_noname"}) =>
        /\ ~last.marked
        /\ last.msg \in unread
        /\ last.counted = "failure"

C2_Witness ==
    /\ last.op = "email"
    /\ last.outcome = "ai_noname"
    /\ last.msg \in unread
    /\ failed_count > 0

\* C3: no two applicants share an Email; an insert whose Email already exists
\* returns no id and leaves both tables as they were.
C3_EmailUnique ==
    /\ \A i, j \in DOMAIN applicants :
           i # j => applicants[i].Email # applicants[j].Email
    /\ (InsertCalled /\ last.emailExisted) =>
           (last.id = NoId /\ ~last.changed)

C3_Witness ==
    /\ InsertCalled
    /\ last.emailExisted
    /\ last.id = NoId
    /\ Len(applicants) > 0

C5_KnownReplyNotPersistedAgain ==
    (last.op = "reply" /\ last.known) =>
        (last.outcome = "skipped" /\ ~last.changed /\ last.counted = "none")

C5_Witness ==
    /\ last.op = "reply"
    /\ last.known
    /\ ~last.inRunSet
    /\ last.outcome = "skipped"

\* C6: process_single_email does no classification, upload or insert for a
\* message whose id is already persisted as a communication.
C6_PersistedNotProcessedAgain ==
    (last.op = "email" /\ last.wasPersisted) =>
        last.outcome \notin {"ai_none", "ai_noname", "inserted", "conflict"}

\* C7: no two communications have the same message id and each one belongs to
\* an existing applicant.
C7_CommunicationsUnique ==
    /\ \A i, j \in DOMAIN communications :
           i # j => communications[i].GmailMessageID # communications[j].GmailMessageID
    /\ \A i \in DOMAIN communications :
           communications[i].ApplicantID \in DOMAIN applicants

C7_Witness ==
    /\ Len(communications) >= 2
    /\ last.op = "reply"
    /\ last.outcome = "not_inserted"
    /\ last.wasPersisted

\* C8: in a run of consecutive get_next_available_key + mark_key_used cycles on
\* a pool whose keys are all healthy, any NumKeys consecutive cycles return
\* pairwise different keys (so each key once) and cycle NumKeys + 1 returns the
\* key of the first cycle.
C8_RoundRobin ==
    /\ \A i, j \in DOMAIN cycleLog :
           (i < j /\ j - i < NumKeys) => cycleLog[i] # cycleLog[j]
    /\ \A i, j \in DOMAIN cycleLog :
           j = i + NumKeys => cycleLog[j] = cycleLog[i]

C8_Witness ==
    /\ Len(cycleLog) = NumKeys + 1
    /\ cycleLog[1] # api_keys[1]

\* C9: right after a get_next_available_key call at time now, the returned key
\* is not rate limited and every key still kept as rate limited has an expiry
\* in the future: a key whose expiry t + c is <= now has become available.
C9_CooldownBoundary ==
    fresh =>
        /\ held \notin DOMAIN rate_limited_keys
        /\ \A k \in DOMAIN rate_limited_keys : now < rate_limited_keys[k]

\* C10: get_next_available_key never returns a key mark_key_failed was called
\* on, whatever happened to the pool in between.
C10_FailedNeverReturned ==
    fresh => held \notin everFailed

C10_Witness ==
    /\ fresh
    /\ held # NoKey
    /\ everFailed # {}
    /\ now > 0
    /\ current_index # 0

\* C11: an extraction call that begins while every key is rate limited with
\* an unexpired cooldown ends within the retry count, returns none for want
\* of a key, and has called the provider not once.
C11_AllLimitedEndsWithNone ==
    (xpc = "done" /\ startLimited)
        => /\ result = "none"
           /\ exit = "no_key"
           /\ provider_calls = 0
           /\ attempt < max_retries

\* a call that began with every key rate limited has returned
C11_Witness == xpc = "done" /\ startLimited /\ result = "none"

\* C12: whatever the provider answers, one extraction call invokes it at most
\* max_retries times, sleeps between attempts only, and what it returns is a
\* parsed result or none.
C12_BoundedRetries ==
    /\ provider_calls <= max_retries
    /\ attempt < max_retries
    /\ sleeps <= max_retries - 1
    /\ xpc = "done" => result \in {"parsed", "none"}
    /\ xpc # "done" => result = "pending"

\* a call has used all its attempts on failing provider calls and returned
C12_Witness ==
    /\ xpc = "done"
    /\ provider_calls = max_retries
    /\ exit = "retries"
    /\ result = "none"

\* C22: an attempt at whose start get_next_available_key returned none ends
\* the call there with the failure result: every earlier attempt made one
\* provider call and one sleep, and this one made none.
C22_NoKeyEndsCall ==
    (xpc \in {"invoke", "sleep", "done"} /\ api_key = NoKey)
        => /\ xpc = "done"
           /\ result = "none"
           /\ exit = "no_key"
           /\ provider_calls = attempt
           /\ sleeps = attempt

\* the pool ran out of keys at the second attempt, with one attempt left
C22_Witness ==
    /\ xpc = "done"
    /\ exit = "no_key"
    /\ attempt = 1
    /\ provider_calls = 1
    /\ sleeps = 1

\* the latest step was an attempt: xlast holds the pool as it was before it
JustAttempted == xpc \in {"sleep", "done"} /\ xlast.usage # << >>

\* a key the scan of get_next_available_key would accept
Usable(k) == k \notin failed_keys /\ k \notin DOMAIN rate_limited_keys

\* the retry-after of a quota message as the claim states it, in seconds
StatedRetryAfter(msg) ==
    IF msg.form = "seconds" THEN msg.n
    ELSE IF msg.form = "hour" THEN 3600 * msg.n
    ELSE IF msg.form = "minute" THEN 60 * msg.n
    ELSE 3600

\* a quota error puts the key in rate_limited_keys until the time of the
\* attempt plus the retry-after read from the message, and no provider call
\* is made with a key whose cooldown is still running
QuotaKeyCoolsDown ==
    /\ (JustAttempted /\ xlast.outcome = "quota")
          => /\ xlast.retry_after = StatedRetryAfter(xlast.msg)
             /\ xlast.key \in DOMAIN rate_limited_keys
             /\ rate_limited_keys[xlast.key] =
                    xlast.at + (xlast.retry_after \div DefaultRetryAfter)
    /\ xpc = "invoke"
          => ~(api_key \in DOMAIN rate_limited_keys
               /\ now < rate_limited_keys[api_key])

\* C23 as stated: after a quota error with key k, k is rate limited for the
\* parsed retry-after (3600 s by default), is not used while the cooldown
\* runs, and the next attempt of the call uses another key whenever another
\* key is usable.
C23_QuotaThenOtherKey ==
    /\ QuotaKeyCoolsDown
    /\ (xpc = "invoke" /\ xlast.outcome = "quota"
          /\ \E k \in Keys \ {xlast.key} : Usable(k))
          => api_key # xlast.key

\* C23 amended: the next attempt uses another key whenever another key is
\* usable and the cooldown of k is still running when that attempt starts.
C23_QuotaThenOtherKeyWhileCooling ==
    /\ QuotaKeyCoolsDown
    /\ (xpc = "invoke" /\ xlast.outcome = "quota"
          /\ xlast.key \in DOMAIN rate_limited_keys
          /\ \E k \in Keys \ {xlast.key} : Usable(k))
          => api_key # xlast.key

\* the attempt after a quota error runs with another key while the first
\* one is cooling down
C23_Witness ==
    /\ xpc = "invoke"
    /\ xlast.outcome = "quota"
    /\ xlast.key \in DOMAIN rate_limited_keys
    /\ now < rate_limited_keys[xlast.key]
    /\ api_key \notin {NoKey, xlast.key}

\* C24: an authentication or invalid-argument error with key k puts k in
\* failed_keys without touching any usage counter, and no provider call is
\* ever made again with a key that was marked failed.
C24_FailedKeyNeverInvoked ==
    /\ (JustAttempted /\ xlast.outcome \in {"invalid", "unauthenticated"})
          => /\ xlast.key \in failed_keys
             /\ usage_counts = xlast.usage
    /\ xpc = "invoke" => api_key \notin everFailed

\* the attempt after an authentication error runs with another key
C24_Witness ==
    /\ xpc = "invoke"
    /\ xlast.key \in everFailed
    /\ api_key \notin {NoKey, xlast.key}

\* the pool is as it was when the provider was called
PoolAsBefore ==
    /\ failed_keys = xlast.failed
    /\ rate_limited_keys = xlast.rl
    /\ usage_counts = xlast.usage
    /\ current_index = xlast.idx

\* C25: a provider error that is neither a quota, an authentication nor an
\* invalid-argument error leaves failed_keys, rate_limited_keys, every usage
\* counter and the cursor as they were.
C25_TransientErrorKeepsPool ==
    (JustAttempted /\ xlast.outcome = "error") => PoolAsBefore

\* an attempt ended in such an error on a pool that holds a rate-limited key
C25_Witness ==
    /\ JustAttempted
    /\ xlast.outcome = "error"
    /\ DOMAIN rate_limited_keys # {}

\* C26: an attempt whose response is empty, has no braces, is not JSON or is
\* an empty object is a failed attempt: no result is returned from it, and
\* usage counters, health states and cursor are as they were.
C26_ParseFailureKeepsPool ==
    (JustAttempted
       /\ xlast.outcome \in {"empty", "no_json", "bad_json", "empty_object"})
        => /\ PoolAsBefore
           /\ result # "parsed"
           /\ xpc = "sleep" \/ exit = "retries"

\* an attempt got an empty object from the provider
C26_Witness ==
    /\ JustAttempted
    /\ xlast.outcome = "empty_object"
    /\ xpc = "sleep"

\* C27: a successful attempt adds one to the usage counter of its key and to
\* no other, and moves the cursor on by one; the usage counters add up to
\* the number of extraction calls that returned a result.
C27_UsageCountsResults ==
    /\ (JustAttempted /\ result = "parsed")
          => /\ usage_counts = [xlast.usage EXCEPT ![xlast.key] = @ + 1]
             /\ current_index = (xlast.idx + 1) % Len(api_keys)
    /\ SumUses(usage_counts, NumKeys) = returned

\* C28: a call sleeps once after each failed attempt that is not its last,
\* not after a successful attempt and not after the last one, so at most
\* max_retries - 1 times; a sleep lasts between d and 1.1 d seconds,
\* d = min(60, max_delay).
C28_BackoffBetweenAttempts ==
    /\ sleeps = attempt
    /\ sleeps <= max_retries - 1
    /\ JustAttempted
          => (xpc = "sleep" <=> /\ exit \notin {"result", "exception"}
                                /\ attempt < max_retries - 1)
    /\ total_delay # 0
          => LET d == IF max_delay < 60 THEN max_delay ELSE 60
             IN 10 * total_delay >= 10 * d /\ 10 * total_delay <= 11 * d

\* the second sleep of a call has just ended, with the longest jitter
C28_Witness ==
    /\ xpc = "loop"
    /\ sleeps = max_retries - 1
    /\ total_delay = 33

\* C29: after a failed attempt with key k the next attempt of the call runs
\* with another key whenever another key is usable.
C29_RetriesRotate ==
    (xpc = "invoke" /\ xlast.key # NoKey
       /\ \E k \in Keys \ {xlast.key} : Usable(k))
        => api_key # xlast.key

\* process_single_email has just ended without an attachment to save
NoAttachment == last.op = "email" /\ last.outcome = "no_attachment"

\* the text extractor, the inference client, the object store and storage
Downstream ==
    {"extract_text", "extract_info", "upload_to_drive",
     "insert_applicant_and_communication"}

\* the message is marked read, nothing downstream is called or stored, and
\* the message is counted as a failure
NoAttachmentConsumed ==
    /\ last.marked
    /\ "mark_as_read" \in last.calls
    /\ last.calls \cap Downstream = {}
    /\ last.dApps = 0 /\ last.dComms = 0
    /\ last.counted = "failure"
    /\ failed_count >= 1

C13_NotFoundClearsThread ==
    (last.op = "thread" /\ last.outcome = "not_found")
        => applicants[last.id].ThreadID = Null

C17_InsertAtomic ==
    (last.op = "email" /\ InsertCalled)
        => IF last.id # NoId
           THEN /\ last.dApps = 1
                /\ last.dComms = 1
                /\ last.id \in DOMAIN applicants
                /\ \E i \in DOMAIN communications :
                       /\ communications[i].GmailMessageID = last.msg
                       /\ communications[i].ApplicantID = last.id
                       /\ communications[i].Direction = "Incoming"
           ELSE last.dApps = 0 /\ last.dComms = 0

\* the communication insert failed after the applicant row had been written
C17_Witness ==
    /\ last.op = "email"
    /\ last.outcome = "conflict"
    /\ ~last.emailExisted
    /\ last.wasPersisted
    /\ last.id = NoId

IsDigit(c) == c \in Digits

\* C18: a non-empty Phone comes out as its digits, without the leading "91"
\* when they are exactly 12 digits beginning with "91", cut to the rightmost
\* 10 when 10 or more remain; "+91 98765 43210" and "919876543210" give
\* "9876543210", "12345" gives "12345", and no result has more than 10 digits.
C18_PhoneSanitized ==
    (parsed.status = "ok" /\ phone_in # << >>)
        => LET d == SelectSeq(phone_in, IsDigit)
               kept == IF Len(d) = 12 /\ d[1] = "9" /\ d[2] = "1"
                       THEN Tail(Tail(d)) ELSE d
               expected == IF Len(kept) >= 10
                           THEN [i \in 1..10 |-> kept[Len(kept) - 10 + i]]
                           ELSE kept
           IN /\ parsed.Phone = expected
              /\ Len(parsed.Phone) <= 10
              /\ phone_in = <<"+", "9", "1", " ", "9", "8", "7", "6", "5", " ", "4", "3", "2", "1", "0">> => parsed.Phone = <<"9", "8", "7", "6", "5", "4", "3", "2", "1", "0">>
              /\ phone_in = <<"1", "2", "3", "4", "5">> => parsed.Phone = <<"1", "2", "3", "4", "5">>
              /\ phone_in = <<"9", "1", "9", "8", "7", "6", "5", "4", "3", "2", "1", "0">> => parsed.Phone = <<"9", "8", "7", "6", "5", "4", "3", "2", "1", "0">>

\* a Phone of 12 digits beginning with "91", written with a sign and spaces,
\* was sanitized
C18_Witness ==
    /\ parsed.status = "ok"
    /\ phone_in = <<"+", "9", "1", " ", "9", "8", "7", "6", "5", " ", "4", "3", "2", "1", "0">>
    /\ parsed.Phone = <<"9", "8", "7", "6", "5", "4", "3", "2", "1", "0">>

\* C19: _normalize_domain gives "DevOps Engineer" for "Senior DevOps
\* Engineer", "Full Stack Developer" for "Full-Stack Dev" and "Blockchain
\* Specialist" for "Blockchain Specialist"; for every non-empty input it gives
\* the label of the first entry of role_map with a keyword inside the lowered
\* input, and the title-cased input when there is none.
C19_DomainNormalized ==
    (domain_out.done /\ domain_in # << >>)
        => LET matching == {i \in DOMAIN role_map :
                              \E k \in DOMAIN role_map[i].keywords :
                                  Contains(LowerStr(domain_in),
                                           role_map[i].keywords[k])}
               first == CHOOSE i \in matching : \A j \in matching : i <= j
           IN /\ domain_out.value = IF matching # {} THEN role_map[first].label
                                    ELSE TitleStr(domain_in)
              /\ domain_in = <<"S", "e", "n", "i", "o", "r", " ", "D", "e", "v", "O", "p", "s", " ", "E", "n", "g", "i", "n", "e", "e", "r">>
                    => domain_out.value = <<"D", "e", "v", "O", "p", "s", " ", "E", "n", "g", "i", "n", "e", "e", "r">>
              /\ domain_in = <<"F", "u", "l", "l", "-", "S", "t", "a", "c", "k", " ", "D", "e", "v">>
                    => domain_out.value = <<"F", "u", "l", "l", " ", "S", "t", "a", "c", "k", " ", "D", "e", "v", "e", "l", "o", "p", "e", "r">>
              /\ domain_in = <<"B", "l", "o", "c", "k", "c", "h", "a", "i", "n", " ", "S", "p", "e", "c", "i", "a", "l", "i", "s", "t">>
                    => domain_out.value = <<"B", "l", "o", "c", "k", "c", "h", "a", "i", "n", " ", "S", "p", "e", "c", "i", "a", "l", "i", "s", "t">>

\* the object that begins at the first opening brace of the text
FirstObject(t) ==
    LET i == FirstIndex(t, "{")
        ends == {j \in DOMAIN t : i # 0 /\ j > i /\ json_loads_ok(SubSeq(t, i, j))}
    IN IF ends = {} THEN << >>
       ELSE SubSeq(t, i, CHOOSE j \in ends : \A k \in ends : j <= k)

\* prose, then one JSON object, then any trailing text
ProseObjectTrailing(t) ==
    /\ FirstObject(t) # << >>
    /\ \A k \in 1..(FirstIndex(t, "{") - 1) : t[k] = "x"

BraceDelimited(t) == \E i, j \in DOMAIN t : i < j /\ t[i] = "{" /\ t[j] = "}"

\* C20: for a response made of prose, one JSON object and trailing text,
\* whatever the trailing text holds, _parse_and_clean_response returns that
\* first object with the phone normalized; a response with no brace-delimited
\* substring is a parse failure.
C20_FirstObjectReturned ==
    parsed.status # "pending"
        => /\ ProseObjectTrailing(text)
                => /\ parsed.status = "ok"
                   /\ parsed.obj = FirstObject(text)
                   /\ parsed.Phone = clean_phone(phone_in)
           /\ ~BraceDelimited(text) => parsed.status = "none"

\* a credential that is neither Failed nor RateLimited with a cooldown that
\* has not yet elapsed (the cooldown set at t for c has elapsed from t + c on)
Healthy(k) ==
    /\ k \notin failed_keys
    /\ k \in DOMAIN rate_limited_keys => now >= rate_limited_keys[k]

\* position of the j-th key of the cyclic order that starts at the cursor
CyclicIndex(j) == (current_index + j) % Len(api_keys)

\* C21: get_next_available_key returns none exactly when no credential is
\* healthy; otherwise it returns the first healthy credential in cyclic order
\* from the cursor and leaves the cursor on it; when it returns none the
\* cursor is where it was before the call.
C21_NextAvailableKey ==
    [][get_next_available_key =>
         /\ held' = NoKey <=> \A k \in Keys : ~Healthy(k)
         /\ held' = NoKey => current_index' = current_index
         /\ held' # NoKey =>
               \E j \in 0..(Len(api_keys) - 1) :
                   /\ held' = api_keys[CyclicIndex(j) + 1]
                   /\ Healthy(held')
                   /\ \A i \in 0..(j - 1) : ~Healthy(api_keys[CyclicIndex(i) + 1])
                   /\ current_index' = CyclicIndex(j)]_vars

\* process_single_email has just ended on a classified message whose sender
\* already had an applicant row
DuplicateEmail ==
    /\ last.op = "email"
    /\ last.outcome = "conflict"
    /\ last.emailExisted

\* C31: a classified message whose insert is refused for a duplicate email
\* is marked read, adds no applicant row and no communication row, and is
\* counted as a failure and not as a success.
C31_DuplicateConsumed ==
    DuplicateEmail
        => /\ last.marked
           /\ "mark_as_read" \in last.calls
           /\ last.applied => last.msg \notin unread
           /\ last.dApps = 0 /\ last.dComms = 0
           /\ ~MessageExists(communications, last.msg) \/ last.wasPersisted
           /\ last.counted = "failure"
           /\ failed_count >= 1
           /\ successful_count + failed_count = Cardinality(attempted)

\* the second message of a sender was refused and has left the unread set
C31_Witness ==
    /\ DuplicateEmail
    /\ last.applied
    /\ last.msg \notin unread
    /\ ~MessageExists(communications, last.msg)

\* C32: in one process_new_applications run process_single_email runs at
\* most once per message id, a second listing of an id being skipped, and
\* when the run ends every fetched id is in processed_message_ids_this_run.
C32_OncePerRun ==
    /\ last.op = "email" => ~last.again
    /\ (last.op = "skip" /\ last.again) => last.msg \in processed_message_ids_this_run
    /\ pc = "apps" => attempted \subseteq processed_message_ids_this_run
    /\ (pc = "apps" /\ messages = << >>)
          => fetched \subseteq processed_message_ids_this_run

\* the second listing of an id has just been skipped, at the end of a run
\* whose message was left unread
C32_Witness ==
    /\ pc = "apps"
    /\ messages = << >>
    /\ last.op = "skip"
    /\ last.again
    /\ last.msg \in unread

\* applicant i had a thread and a status other than Rejected and Hired when
\* the run read the table
ActiveAtQuery(i) ==
    /\ i \in DOMAIN queried
    /\ queried[i].ThreadID # Null
    /\ queried[i].Status \notin {"Rejected", "Hired"}

\* C33: process_replies fetches a thread and persists a communication only for
\* an applicant that had a ThreadID and a status other than Rejected and Hired
\* when the run queried storage.
C33_OnlyActiveThreads ==
    pc = "replies"
        => /\ \A j \in DOMAIN active_threads :
                 /\ ActiveAtQuery(active_threads[j][1])
                 /\ active_threads[j][2] = queried[active_threads[j][1]].ThreadID
           /\ last.op = "thread" => ActiveAtQuery(last.id)
           /\ last.op = "reply"
                 => /\ ActiveAtQuery(cur_applicant)
                    /\ last.dComms > 0
                          => communications[Len(communications)].ApplicantID
                                 = cur_applicant

\* a run has ended without a fetch while a hired applicant's thread holds a
\* message that is not persisted
C33_Witness ==
    /\ pc = "replies"
    /\ active_threads = << >>
    /\ messages_in_thread = << >>
    /\ last = NoStep
    /\ \E i \in DOMAIN queried :
          /\ queried[i].Status = "Hired"
          /\ queried[i].ThreadID # Null
          /\ \E m \in mailbox : /\ ThreadOf(m) = queried[i].ThreadID
                                 /\ ~MessageExists(communications, m)

\* the scan of get_next_available_key, started again on the pool as it is
NextHandOut ==
    ScanKeys(api_keys, current_index, 0, failed_keys,
             CleanRateLimits(rate_limited_keys, now)).key

\* C34: get_next_available_key reserves nothing: the key it has just handed
\* out is the key its next call hands out, to whichever caller, until a pool
\* method is called; every mark_key_used of a caller is counted, also when
\* another caller reported the same key.
C34_HandOutReservesNothing ==
    /\ (fresh /\ held # NoKey) => NextHandOut = held
    /\ SumUses(usage_counts, NumKeys) = Len(uses)

\* both callers held the same key, both reported it used, and NumKeys uses
\* on a pool that was healthy throughout left a key unused
C34_Witness ==
    /\ overlapped
    /\ everFailed = {} /\ rate_limited_keys = << >> /\ now = 0
    /\ Len(uses) = NumKeys
    /\ \A i \in DOMAIN uses : uses[i] = uses[1]
    /\ \A c \in Callers : holding[c] = NoKey

\* C35: when process_single_email has marked a message read, the message had
\* no processable attachment or an applicant with the sender's email is in
\* storage.
C35_ConsumedOnlyIfStored ==
    (last.op = "email" /\ last.marked /\ last.applied)
        => \/ last.outcome = "no_attachment"
           \/ EmailExists(applicants, SenderOf(last.msg))

\* get_email_content has just failed for thread message m, a message from
\* another sender than the account
ContentFailed(m) ==
    /\ last.op = "reply"
    /\ last.msg = m
    /\ last.outcome = "no_content"
    /\ SenderOf(m) # OwnAddress

Stats == get_stats(api_keys, failed_keys, rate_limited_keys, usage_counts)

\* number of keys get_stats reports with the given status
WithStatus(status) ==
    Cardinality({k \in DOMAIN Stats.key_statuses :
                    Stats.key_statuses[k] = status})

\* C37: no key is both in failed_keys and in rate_limited_keys, so the counts
\* of get_stats add up to total_keys and agree with the per-key statuses.
C37_StatsPartition ==
    /\ failed_keys \cap DOMAIN rate_limited_keys = {}
    /\ Stats.available_keys + Stats.failed_keys + Stats.rate_limited_keys
           = Stats.total_keys
    /\ WithStatus("Failed") = Stats.failed_keys
    /\ WithStatus("Rate Limited") = Stats.rate_limited_keys
    /\ WithStatus("Available") = Stats.available_keys
    /\ Stats.usage_counts = usage_counts

\* one key failed, the other rate limited, none available
C37_Witness ==
    /\ failed_keys # {}
    /\ DOMAIN rate_limited_keys # {}
    /\ Stats.available_keys = 0
    /\ xpc = "done"

\* C38: in a process_new_applications run the two counters add up to the
\* number of distinct fetched ids that were not in the run set when the run
\* began, and successful_count is the number of applicant rows the run added.
C38_CountsAddUp ==
    /\ pc = "apps" => successful_count = runCreated[1]
    /\ pc = "apps" => successful_count + failed_count = Cardinality(attempted)
    /\ AppsRunDone
          => successful_count + failed_count
                 = Cardinality(fetched \ run_start)

\* a run has ended that skipped one listed id and inserted another
C38_Witness ==
    /\ AppsRunDone
    /\ fetched \cap run_start # {}
    /\ successful_count = 1
    /\ Len(applicants) > runCreated[1]

\* ---------------------------------------------------------------------------
\* background sync

Active(w) == w \in DOMAIN threads /\ threads[w].pc # "ended"

\* C39: at most one background_sync thread of a session is active at any
\* time: while a thread is active, or the script run is between setting the
\* flag and starting the thread, sync_in_progress is true, and the script run
\* starts a thread only when no other one is active.
C39_OneWorkerPerSession ==
    /\ Cardinality({w \in 1..MaxSyncs : Active(w)}) <= 1
    /\ (\E w \in 1..MaxSyncs : Active(w)) => sync_in_progress
    /\ script_pc = "thread" =>
          sync_in_progress /\ ~ \E w \in 1..MaxSyncs : Active(w)

C39_Witness ==
    /\ Len(threads) = 2
    /\ threads[1].pc = "ended"
    /\ threads[2].pc = "replies"
    /\ sync_in_progress

Terminal == {"completed", "failed"}

Terminals(sent) == {i \in DOMAIN sent : sent[i] \in Terminal}

ReportsInOrder(w) ==
    /\ threads[w].sent # << >> => threads[w].sent[1] = "start"
    /\ Terminals(threads[w].sent) \subseteq {Len(threads[w].sent)}
    /\ threads[w].pc \in {"finally", "ended"} =>
          Cardinality(Terminals(threads[w].sent)) = 1
    /\ sync_results.by = w =>
          \A i \in DOMAIN threads[w].sent : threads[w].sent[i] # "failed"

\* C40: every started background sync ends; it puts the start notification
\* first and exactly one of "completed" and "failed" last; the result slot is
\* written only by a run that went through; and whenever sync_in_progress is
\* true it becomes false again.
C40_SyncEndsAndReports ==
    /\ [](\A w \in DOMAIN threads : ReportsInOrder(w))
    /\ \A w \in 1..MaxSyncs :
          (w \in DOMAIN threads) ~> (w \in DOMAIN threads /\ ~Active(w))
    /\ sync_in_progress ~> ~sync_in_progress

\* the part of C40 that does not depend on the flag: the notifications, the
\* result slot and the end of every started thread
C40_ReportsAndEnds ==
    /\ [](\A w \in DOMAIN threads : ReportsInOrder(w))
    /\ \A w \in 1..MaxSyncs :
          (w \in DOMAIN threads) ~> (w \in DOMAIN threads /\ ~Active(w))

\* a thread has ended and the flag it was to clear is still set
C40_FlagLeftSet ==
    /\ Len(threads) = 1
    /\ threads[1].pc = "ended"
    /\ script_pc = "idle"
    /\ sync_in_progress

====
